---- MODULE Spec2Model ----
(***************************************************************************)
(* Model of src/app/page.tsx: the HomePage reminder list.                  *)
(*                                                                         *)
(* State: the React state `tasks`, the localStorage item, the scheduler    *)
(* interval, the soundReady flag, and the wall clock.  Time is counted in  *)
(* slots; SlotsPerDay slots make one calendar day.  A Date is the number   *)
(* of slots since the epoch (its UTC time value), an ISO string is the     *)
(* pair (UTC day, UTC slot of the day) that toISOString prints, and the    *)
(* local calendar fields (getDate, getDay, setDate) are computed through   *)
(* the host time zone, which has one spring-forward transition.            *)
(***************************************************************************)
EXTENDS Integers, Sequences, FiniteSets, TLC

VARIABLES
    phase,       \* lifecycle position of the view, see Phases
    tasks,       \* useState<Task[]>: the in-memory collection
    pending,     \* the update queued by setTasks(loadTasks()) at mount
    storage,     \* localStorage[STORAGE_KEY]
    interval,    \* the scheduler's setInterval handle: "none" or "active"
    soundReady,  \* useState(false): audio unlocked
    now,         \* the wall clock, in slots since the epoch
    nextId,      \* number of identifiers crypto.randomUUID has handed out
    emitted,     \* ids whose current occurrence had a Notification shown
    duplicates,  \* ids whose current occurrence had it shown more than once
    lastEmits,   \* side effects of the sweep just run: <<id, "notif"|"beep">>
    removed,     \* identifiers deleted by removeTask
    lastOp       \* the latest operation that ran

vars == <<phase, tasks, pending, storage, interval, soundReady, now, nextId,
          emitted, duplicates, lastEmits, removed, lastOp>>

----------------------------------------------------------------------------
(* Bounds of the model *)

MaxAdds == 2        \* tasks addTask creates in one behaviour
MaxNow == 2         \* last clock value explored
MaxFormDay == 0     \* latest calendar day the date input is set to
MaxFormTime == 0    \* latest time of day the time input is set to
SlotsPerDay == 2    \* time-of-day values per calendar day

(* Program constants: the getDay() values the scanner tests for *)
SUNDAY == 0
SATURDAY == 6
DaysPerWeek == 7

(* The host: local day 0 is a Friday, and the clocks go forward by one    *)
(* slot at the start of the first Sunday.                                 *)
EpochDow == SATURDAY - 1
GapDay == CHOOSE d \in 0..(DaysPerWeek - 1) : (d + EpochDow) % DaysPerWeek = SUNDAY

Phases == {"unmounted", "rendered", "loading", "dirty", "idle"}
Repeats == {"none", "daily", "weekdays"}
Ids == 1..MaxAdds

----------------------------------------------------------------------------
(* Date: time value <-> ISO string <-> local calendar fields *)

\* Date.prototype.toISOString: the UTC day and UTC time of day
ToISOString(t) == [kind |-> "string", d |-> t \div SlotsPerDay, s |-> t % SlotsPerDay]

\* new Date(iso).getTime()
DateParse(iso) == iso.d * SlotsPerDay + iso.s

\* an optional field whose key is not in the object
Missing == [kind |-> "missing", d |-> 0, s |-> 0]

\* an optional field whose key is present with the value undefined
Undefined == [kind |-> "undefined", d |-> 0, s |-> 0]

\* !v for an optional ISO string
Falsy(v) == v.kind # "string"

\* the first local slot the spring-forward transition skips
GapLocal == GapDay * SlotsPerDay

\* LocalTime(t): local slot index of a UTC time value
LocalTime(t) == IF t < GapLocal THEN t ELSE t + 1

\* UTC(l): a skipped local time is read with the offset before the transition
UTC(l) == IF l <= GapLocal THEN l ELSE l - 1

\* local calendar day of a time value (getDate, counted from the epoch)
GetDate(t) == LocalTime(t) \div SlotsPerDay

\* local time of day of a time value (getHours/getMinutes)
GetTimeOfDay(t) == LocalTime(t) % SlotsPerDay

\* getDay(): 0 = Sunday .. 6 = Saturday
GetDay(t) == (GetDate(t) + EpochDow) % DaysPerWeek

\* d.setDate(d.getDate() + 1): next local calendar day, same local fields
SetDatePlusOne(t) == UTC((GetDate(t) + 1) * SlotsPerDay + GetTimeOfDay(t))

\* new Date(`${date}T${time}:00`): the form's local date and time
DateFromForm(date, time) == UTC(date * SlotsPerDay + time)

\* do { setDate(+1) } while ([0, 6].includes(getDay()))
RECURSIVE NextWeekday(_)
NextWeekday(t) ==
    LET n == SetDatePlusOne(t)
    IN  IF GetDay(n) \in {SUNDAY, SATURDAY} THEN NextWeekday(n) ELSE n

----------------------------------------------------------------------------
(* Persistence *)

\* JSON.stringify of one task: keys whose value is undefined are left out
StringifyTask_DropsCompleted(t) ==
    [t EXCEPT !.notifiedAt = IF @.kind = "undefined" THEN Missing ELSE @,
              !.completedAt = Missing]

StringifyTask(t) ==
    [t EXCEPT !.notifiedAt = IF @.kind = "undefined" THEN Missing ELSE @,
              !.completedAt = IF @.kind = "undefined" THEN Missing ELSE @]

\* saveTasks: localStorage.setItem(STORAGE_KEY, JSON.stringify(tasks))
SaveTasks(ts) ==
    [kind |-> "array", items |-> [i \in 1..Len(ts) |-> StringifyTask(ts[i])]]

\* elements of a stored array that are no objects: null, a number
JsonNull == [json |-> "null"]
JsonNumber == [json |-> "number"]

\* the object {}: every field of a Task reads as undefined (id 0 and title ""
\* stand for an undefined id and title)
EmptyObject ==
    [id |-> 0, title |-> "", dateISO |-> Missing, repeat |-> "undefined",
     notifiedAt |-> Missing, completedAt |-> Missing]

\* { ...t }: the own properties of t; null and numbers have none
SpreadCopy(t) == IF "json" \in DOMAIN t THEN EmptyObject ELSE t

\* loadTasks.  The stored value is absent or "" (returns [] at line 19),
\* not JSON (JSON.parse throws, caught), JSON that is no array (parsed.map
\* is no function, the TypeError is caught), or an array, whose elements
\* are copied.
LoadTasks_Reversed(st) ==
    IF st.kind # "array" THEN <<>>
    ELSE [i \in 1..Len(st.items) |-> SpreadCopy(st.items[Len(st.items) + 1 - i])]

LoadTasks(st) ==
    IF st.kind \in {"absent", "empty"} THEN <<>>
    ELSE IF st.kind = "unparsable" THEN <<>>
    ELSE IF st.kind = "value" THEN <<>>
    ELSE [i \in 1..Len(st.items) |-> SpreadCopy(st.items[i])]

----------------------------------------------------------------------------
(* The scanner's per-task decision *)

\* isDue && notSent
IsEligible_SkipsCompleted(t, at) ==
    at >= DateParse(t.dateISO) /\ Falsy(t.notifiedAt) /\ Falsy(t.completedAt)

IsEligible_IgnoresNotified(t, at) == at >= DateParse(t.dateISO)

IsEligible(t, at) == at >= DateParse(t.dateISO) /\ Falsy(t.notifiedAt)

\* the due timestamp of the next occurrence of a repeating task
NextDue_FromNow(t) ==
    IF t.repeat = "daily" THEN SetDatePlusOne(now)
    ELSE IF t.repeat = "weekdays" THEN NextWeekday(now)
    ELSE DateParse(t.dateISO)

NextDue_DailyAsWeekdays(t) ==
    LET due == DateParse(t.dateISO)
    IN  IF t.repeat \in {"daily", "weekdays"} THEN NextWeekday(due) ELSE due

NextDue(t) ==
    LET due == DateParse(t.dateISO)
    IN  IF t.repeat = "daily" THEN SetDatePlusOne(due)
        ELSE IF t.repeat = "weekdays" THEN NextWeekday(due)
        ELSE due

\* the task the map callback returns for t
SweepTask_DropsCompleted(t, at) ==
    IF IsEligible(t, at)
    THEN IF t.repeat # "none"
         THEN [t EXCEPT !.dateISO = ToISOString(NextDue(t)),
                        !.notifiedAt = Undefined,
                        !.completedAt = Missing]
         ELSE [t EXCEPT !.notifiedAt = ToISOString(at),
                        !.completedAt = Missing]
    ELSE t

SweepTask_KeepsStamp(t, at) ==
    IF IsEligible(t, at)
    THEN IF t.repeat # "none"
         THEN [t EXCEPT !.dateISO = ToISOString(NextDue(t)),
                        !.notifiedAt = ToISOString(at)]
         ELSE [t EXCEPT !.notifiedAt = ToISOString(at)]
    ELSE t

SweepTask(t, at) ==
    IF IsEligible(t, at)
    THEN IF t.repeat # "none"
         THEN [t EXCEPT !.dateISO = ToISOString(NextDue(t)),
                        !.notifiedAt = Undefined]
         ELSE [t EXCEPT !.notifiedAt = ToISOString(at)]
    ELSE t

----------------------------------------------------------------------------
(* Inputs *)

\* what the title input may hold
Titles == {"", " ", "a", " a "}

\* title.trim()
Trim_Identity(title) == title

Trim(title) ==
    IF title \in {"", " "} THEN "" ELSE "a"

\* outcome of showing the platform notification for one task:
\* shown, skipped (no Notification support or permission), constructor threw
NotifOutcomes == {"sent", "unavailable", "throws"}

\* outcome of a call of triggerBeep(): its Web Audio calls play the tone
\* or throw
BeepOutcomes == {"ok", "throws"}

\* a task as addTask builds it
NewTask_FixedId(id, title, dateISO, repeat) ==
    [id |-> 1, title |-> title, dateISO |-> dateISO, repeat |-> repeat,
     notifiedAt |-> Missing, completedAt |-> Missing]

NewTask(id, title, dateISO, repeat) ==
    [id |-> id, title |-> title, dateISO |-> dateISO, repeat |-> repeat,
     notifiedAt |-> Missing, completedAt |-> Missing]

----------------------------------------------------------------------------
(* Initial state: nothing stored, the component rendered for the first time *)

Init ==
    /\ phase = "rendered"
    /\ tasks = <<>>
    /\ pending = <<>>
    /\ storage = [kind |-> "absent", items |-> <<>>]
    /\ interval = "none"
    /\ soundReady = FALSE
    /\ now = 0
    /\ nextId = 0
    /\ emitted = {}
    /\ duplicates = {}
    /\ lastEmits = {}
    /\ removed = {}
    /\ lastOp = "render"

----------------------------------------------------------------------------
(* Lifecycle *)

\* the page is opened again: HomePage renders with its initial state
Render ==
    /\ phase = "unmounted"
    /\ phase' = "rendered"
    /\ tasks' = <<>>
    /\ soundReady' = FALSE
    /\ lastOp' = "render"
    /\ lastEmits' = {}
    /\ UNCHANGED <<pending, storage, interval, now, nextId, emitted,
                   duplicates, removed>>

\* the mount effects, in source order: queue setTasks(loadTasks()),
\* saveTasks(tasks) with the rendered (empty) tasks, start the interval
MountEffects ==
    /\ phase = "rendered"
    /\ pending' = LoadTasks(storage)
    /\ storage' = SaveTasks(tasks)
    /\ interval' = "active"
    /\ phase' = "loading"
    /\ lastOp' = "mount"
    /\ UNCHANGED <<tasks, soundReady, now, nextId, emitted, duplicates,
                   lastEmits, removed>>

\* React commits the queued setTasks(loadTasks())
CommitLoad ==
    /\ phase = "loading"
    /\ tasks' = pending
    /\ pending' = <<>>
    /\ phase' = "dirty"
    /\ lastOp' = "load"
    /\ UNCHANGED <<storage, interval, soundReady, now, nextId, emitted,
                   duplicates, lastEmits, removed>>

\* the persistence effect after a commit that changed `tasks`
Persist ==
    /\ phase = "dirty"
    /\ storage' = SaveTasks(tasks)
    /\ phase' = "idle"
    /\ lastOp' = "persist"
    /\ lastEmits' = {}
    /\ UNCHANGED <<tasks, pending, interval, soundReady, now, nextId, emitted,
                   duplicates, removed>>

\* the view is torn down: the interval's cleanup runs, the state is dropped
Unmount_KeepsInterval ==
    /\ phase = "idle"
    /\ phase' = "unmounted"
    /\ tasks' = <<>>
    /\ soundReady' = FALSE
    /\ lastOp' = "unmount"
    /\ UNCHANGED <<pending, storage, interval, now, nextId, emitted,
                   duplicates, lastEmits, removed>>

Unmount ==
    /\ phase = "idle"
    /\ phase' = "unmounted"
    /\ tasks' = <<>>
    /\ interval' = "none"
    /\ soundReady' = FALSE
    /\ lastOp' = "unmount"
    /\ UNCHANGED <<pending, storage, now, nextId, emitted, duplicates,
                   lastEmits, removed>>

\* time passes
Tick ==
    /\ phase \in {"idle", "unmounted"}
    /\ now < MaxNow
    /\ now' = now + 1
    /\ UNCHANGED <<phase, tasks, pending, storage, interval, soundReady,
                   nextId, emitted, duplicates, lastEmits, removed, lastOp>>

\* enableSound: unlock audio; a failure is logged and changes nothing.
\* A change of soundReady re-creates the interval.
EnableSound ==
    /\ phase = "idle"
    /\ ~soundReady
    /\ \E ok \in BOOLEAN : soundReady' = ok
    /\ interval' = "active"
    /\ UNCHANGED <<phase, tasks, pending, storage, now, nextId, emitted,
                   duplicates, lastEmits, removed, lastOp>>

----------------------------------------------------------------------------
(* User operations *)

\* addTask with the form holding title, date, time, repeat; dateOk is
\* FALSE when the date or time input is empty and toISOString throws.
\* A blank title returns at once (lastOp records the rejected call).
AddTask ==
    /\ phase = "idle"
    /\ \E title \in Titles, date \in 0..MaxFormDay, time \in 0..MaxFormTime,
          repeat \in Repeats, dateOk \in BOOLEAN :
          IF Trim(title) = ""
          THEN /\ lastOp' = "rejected"
               /\ UNCHANGED <<phase, tasks, nextId>>
          ELSE IF ~dateOk
          THEN UNCHANGED <<phase, tasks, nextId, lastOp>>
          ELSE /\ nextId < MaxAdds
               /\ nextId' = nextId + 1
               /\ tasks' = <<NewTask(nextId + 1, Trim(title),
                                     ToISOString(DateFromForm(date, time)),
                                     repeat)>> \o tasks
               /\ phase' = "dirty"
               /\ lastOp' = "add"
    /\ UNCHANGED <<pending, storage, interval, soundReady, now, emitted,
                   duplicates, lastEmits, removed>>

\* prev.map(t => t.id === id ? { ...t, completedAt: now } : t)
MarkDoneMap_ClearsRepeat(ts, id, at) ==
    [i \in 1..Len(ts) |->
        IF ts[i].id = id
        THEN [ts[i] EXCEPT !.completedAt = ToISOString(at), !.repeat = "none"]
        ELSE ts[i]]

MarkDoneMap(ts, id, at) ==
    [i \in 1..Len(ts) |->
        IF ts[i].id = id THEN [ts[i] EXCEPT !.completedAt = ToISOString(at)]
        ELSE ts[i]]

\* markDone(id)
MarkDone ==
    /\ phase = "idle"
    /\ \E id \in Ids :
          tasks' = MarkDoneMap(tasks, id, now)
    /\ phase' = "dirty"
    /\ lastOp' = "done"
    /\ UNCHANGED <<pending, storage, interval, soundReady, now, nextId,
                   emitted, duplicates, lastEmits, removed>>

\* prev.filter(t => t.id !== id)
RemoveFilter_KeepsLast(ts, id) ==
    SelectSeq(ts, LAMBDA t : t.id # id \/ t.id = ts[Len(ts)].id)

RemoveFilter(ts, id) == SelectSeq(ts, LAMBDA t : t.id # id)

\* removeTask(id)
RemoveTask ==
    /\ phase = "idle"
    /\ \E id \in Ids :
          /\ tasks' = RemoveFilter(tasks, id)
          /\ removed' = IF \E i \in 1..Len(tasks) : tasks[i].id = id
                        THEN removed \cup {id} ELSE removed
    /\ phase' = "dirty"
    /\ lastOp' = "remove"
    /\ emitted' = emitted \cap {tasks'[i].id : i \in DOMAIN tasks'}
    /\ duplicates' = duplicates \cap {tasks'[i].id : i \in DOMAIN tasks'}
    /\ UNCHANGED <<pending, storage, interval, soundReady, now, nextId,
                   lastEmits>>

----------------------------------------------------------------------------
(* The scheduler's sweep *)

\* new Notification(...) is reached and shows the reminder
ShowsNotification(t, at, n) == IsEligible(t, at) /\ n = "sent"

\* triggerBeep() is called and plays the tone
PlaysBeep(t, at, ready, b) == IsEligible(t, at) /\ ready /\ b = "ok"

\* triggerBeep() is called and throws: nothing around the call catches it
BeepThrows(t, at, ready, b) == IsEligible(t, at) /\ ready /\ b = "throws"

Min(S) == CHOOSE x \in S : \A y \in S : x <= y

\* One interval callback: setTasks(prev => prev.map(...)).  It runs whenever
\* the interval exists and React is not in the middle of an update (the
\* cleanup of the effect is what keeps it from running on a view that was
\* torn down).  notif[i] and
\* beep[i] say how the platform answers if task i is alerted.  The map runs
\* front to back; when a triggerBeep() throws, the exception leaves the
\* updater, no state is committed and React unmounts the tree.
Sweep ==
    /\ interval = "active"
    /\ phase \in {"idle", "unmounted"}
    /\ \E notif \in [DOMAIN tasks -> NotifOutcomes],
          beep \in [DOMAIN tasks -> BeepOutcomes] :
          LET thrown == {i \in DOMAIN tasks :
                            BeepThrows(tasks[i], now, soundReady, beep[i])}
              reached == IF thrown = {} THEN DOMAIN tasks ELSE 1..Min(thrown)
              shown == {i \in reached :
                            ShowsNotification(tasks[i], now, notif[i])}
              played == {i \in reached :
                            PlaysBeep(tasks[i], now, soundReady, beep[i])}
              \* tasks the committed map moves to their next occurrence
              moved == IF thrown # {} THEN {}
                       ELSE {tasks[i].id : i \in {j \in DOMAIN tasks :
                                 tasks[j].dateISO # SweepTask(tasks[j], now).dateISO}}
          IN  /\ emitted' = (emitted \cup {tasks[i].id : i \in shown}) \ moved
              /\ duplicates' = (duplicates \cup
                     ({tasks[i].id : i \in shown} \cap emitted)) \ moved
              /\ lastEmits' = {<<tasks[i].id, "notif">> : i \in shown} \cup
                              {<<tasks[i].id, "beep">> : i \in played}
              /\ IF thrown = {}
                 THEN /\ tasks' = [i \in DOMAIN tasks |-> SweepTask(tasks[i], now)]
                      /\ phase' = "dirty"
                      /\ lastOp' = "sweep"
                      /\ UNCHANGED <<interval, soundReady>>
                 ELSE /\ tasks' = <<>>
                      /\ phase' = "unmounted"
                      /\ interval' = "none"
                      /\ soundReady' = FALSE
                      /\ lastOp' = "crash"
    /\ UNCHANGED <<pending, storage, now, nextId, removed>>

----------------------------------------------------------------------------

Next ==
    \/ Render
    \/ MountEffects
    \/ CommitLoad
    \/ Persist
    \/ Unmount
    \/ Tick
    \/ EnableSound
    \/ AddTask
    \/ MarkDone
    \/ RemoveTask
    \/ Sweep

Spec == Init /\ [][Next]_vars

----------------------------------------------------------------------------
(* Startup on whatever the storage item holds *)

MaxStored == 2      \* longest stored array the page is opened on

\* task records a stored array may hold
StoredRecords ==
    {[NewTask(1, "a", ToISOString(0), repeat) EXCEPT !.completedAt = c] :
        repeat \in Repeats, c \in {Missing, ToISOString(0)}}

\* what localStorage may hold under STORAGE_KEY when the page is opened
StoredValues ==
    {[kind |-> k, items |-> <<>>] : k \in {"absent", "empty", "unparsable", "value"}}
    \cup
    {[kind |-> "array", items |-> items] :
        items \in UNION {[1..n -> StoredRecords \cup {JsonNull, JsonNumber}] :
                            n \in 0..MaxStored}}

LoadInit ==
    /\ phase = "rendered"
    /\ tasks = <<>>
    /\ pending = <<>>
    /\ storage \in StoredValues
    /\ interval = "none"
    /\ soundReady = FALSE
    /\ now = 0
    /\ nextId = 0
    /\ emitted = {}
    /\ duplicates = {}
    /\ lastEmits = {}
    /\ removed = {}
    /\ lastOp = "render"

\* startup: the mount effects, the commit of the load, its persistence
LoadNext ==
    \/ MountEffects
    \/ CommitLoad
    \/ Persist

LoadSpec == LoadInit /\ [][LoadNext]_vars

----------------------------------------------------------------------------
(* The scheduler's timer over the life of the view *)

\* the page is opened on a stored collection of at most one task
TimerInit ==
    /\ LoadInit
    /\ storage.kind = "array"
    /\ Len(storage.items) <= 1
    /\ \A i \in DOMAIN storage.items : storage.items[i] \in StoredRecords

\* the view's life without new tasks: mount, sweeps, sound, completing and
\* deleting, teardown and reopening
TimerNext ==
    \/ Render
    \/ MountEffects
    \/ CommitLoad
    \/ Persist
    \/ Unmount
    \/ Tick
    \/ EnableSound
    \/ MarkDone
    \/ RemoveTask
    \/ Sweep

\* Scheduling: the interval timer fires again and again whatever the user
\* does in between, and React always finishes the work it has queued (the
\* mount effects, the commit of the load, the persistence effect).
FairSpec ==
    /\ TimerInit
    /\ [][TimerNext]_vars
    /\ SF_vars(Sweep)
    /\ WF_vars(MountEffects)
    /\ WF_vars(CommitLoad)
    /\ WF_vars(Persist)

TypeOK ==
    /\ phase \in Phases
    /\ interval \in {"none", "active"}
    /\ soundReady \in BOOLEAN
    /\ now \in 0..MaxNow
    /\ nextId \in 0..MaxAdds
    /\ removed \subseteq Ids
    /\ \A i \in DOMAIN tasks : tasks[i].id \in Ids /\ tasks[i].repeat \in Repeats

----------------------------------------------------------------------------
(* Vocabulary of the properties *)

\* the step is one interval callback (committed, or aborted by a throw)
SweepStep == phase = "idle" /\ lastOp' \in {"sweep", "crash"}

\* the step is one interval callback whose update React committed
CommittedSweepStep == phase = "idle" /\ lastOp' = "sweep"

\* the step is one call of markDone
DoneStep == phase = "idle" /\ lastOp' = "done"

\* the step is one call of removeTask
RemoveStep == phase = "idle" /\ lastOp' = "remove"

\* an optional timestamp is present
Present(v) == v.kind = "string"

\* the task's due time has come and it carries no notified timestamp
DueAndUnnotified(t) == now >= DateParse(t.dateISO) /\ ~Present(t.notifiedAt)

\* two optional timestamps agree in presence and value
SameStamp(a, b) == Present(a) = Present(b) /\ (Present(a) => DateParse(a) = DateParse(b))

\* a stored record and an in-memory task are the same task
SameTask(a, b) ==
    /\ a.id = b.id
    /\ a.title = b.title
    /\ DateParse(a.dateISO) = DateParse(b.dateISO)
    /\ a.repeat = b.repeat
    /\ SameStamp(a.notifiedAt, b.notifiedAt)
    /\ SameStamp(a.completedAt, b.completedAt)

\* the stored collection is the in-memory collection
Mirror ==
    /\ storage.kind = "array"
    /\ Len(storage.items) = Len(tasks)
    /\ \A i \in DOMAIN tasks : SameTask(storage.items[i], tasks[i])

\* identifiers held in a collection
IdsOf(ts) == {ts[i].id : i \in DOMAIN ts}

\* the sweep stamped or rescheduled the task at position i
Processed(i) ==
    /\ i \in DOMAIN tasks'
    /\ tasks'[i].id = tasks[i].id
    /\ IF tasks[i].repeat = "none"
       THEN Present(tasks'[i].notifiedAt)
       ELSE DateParse(tasks'[i].dateISO) > DateParse(tasks[i].dateISO)

\* first local calendar day after day d that is not a Saturday or Sunday
RECURSIVE EarliestWeekdayAfter(_)
EarliestWeekdayAfter(d) ==
    IF ((d + 1 + EpochDow) % DaysPerWeek) \in {SUNDAY, SATURDAY}
    THEN EarliestWeekdayAfter(d + 1)
    ELSE d + 1

----------------------------------------------------------------------------
(* Claims *)

\* C1: for every task and every due timestamp of it (one occurrence), the
\* scanner shows a notification at most once, whatever sweeps, user
\* operations and reloads happen in between.
C1_AtMostOncePerOccurrence == duplicates = {}

\* C2: whatever the notification and the beep do for an eligible task
\* (succeed, be unavailable, throw), the sweep completes for all tasks and
\* commits the stamp, or the reschedule of a repeating task, in that sweep.
C2_AlertFailuresNeverBlockStamp ==
    [][SweepStep =>
          /\ lastOp' = "sweep"
          /\ phase' = "dirty"
          /\ Len(tasks') = Len(tasks)
          /\ \A i \in DOMAIN tasks :
                DueAndUnnotified(tasks[i]) =>
                    /\ tasks'[i] # tasks[i]
                    /\ tasks[i].repeat = "none" =>
                          tasks'[i].notifiedAt = ToISOString(now)
                    /\ tasks[i].repeat # "none" =>
                          tasks'[i].dateISO # tasks[i].dateISO]_vars

\* C3: a sweep that notifies a weekdays task due at D moves it to the
\* earliest local calendar day after D that is no Saturday or Sunday, at the
\* same local time of day, with notifiedAt absent.
C3_WeekdaysReschedule ==
    [][CommittedSweepStep =>
          \A i \in DOMAIN tasks :
             (DueAndUnnotified(tasks[i]) /\ tasks[i].repeat = "weekdays") =>
                LET D == DateParse(tasks[i].dateISO)
                    N == DateParse(tasks'[i].dateISO)
                IN  /\ GetDate(N) = EarliestWeekdayAfter(GetDate(D))
                    /\ GetDay(N) \notin {SUNDAY, SATURDAY}
                    /\ GetTimeOfDay(N) = GetTimeOfDay(D)
                    /\ ~Present(tasks'[i].notifiedAt)]_vars

\* C4 as claimed: a sweep that notifies a daily task due at D moves it to
\* the next local calendar day at the same local time of day, with
\* notifiedAt absent.
C4_DailySameTimeOfDay ==
    [][CommittedSweepStep =>
          \A i \in DOMAIN tasks :
             (DueAndUnnotified(tasks[i]) /\ tasks[i].repeat = "daily") =>
                LET D == DateParse(tasks[i].dateISO)
                    N == DateParse(tasks'[i].dateISO)
                IN  /\ GetDate(N) = GetDate(D) + 1
                    /\ GetTimeOfDay(N) = GetTimeOfDay(D)
                    /\ ~Present(tasks'[i].notifiedAt)]_vars

\* the local slot is one the spring-forward transition skips
Skipped(l) == l = GapLocal

\* C4 as amended: a sweep that notifies a daily task due at D moves it to
\* the next local calendar day with notifiedAt absent; the local time of
\* day is that of D, unless the clocks skip that time on the next day, and
\* then it is the first local time after the skipped one.
C4_DailyNextCalendarDay ==
    [][CommittedSweepStep =>
          \A i \in DOMAIN tasks :
             (DueAndUnnotified(tasks[i]) /\ tasks[i].repeat = "daily") =>
                LET D == DateParse(tasks[i].dateISO)
                    N == DateParse(tasks'[i].dateISO)
                    target == (GetDate(D) + 1) * SlotsPerDay + GetTimeOfDay(D)
                IN  /\ LocalTime(N) = IF Skipped(target) THEN target + 1 ELSE target
                    /\ N > D
                    /\ ~Present(tasks'[i].notifiedAt)]_vars

\* C4 witness: a sweep has just moved a daily task onto the day of the
\* transition, whose local time of day the clocks skip
C4_Witness ==
    /\ lastOp = "sweep"
    /\ \E i \in DOMAIN tasks :
          /\ tasks[i].repeat = "daily"
          /\ GetDate(DateParse(tasks[i].dateISO)) = GapDay
          /\ DateParse(tasks[i].dateISO) > now
          /\ ~Present(tasks[i].notifiedAt)

\* C5: markDone on a task that is already completed leaves its completedAt
\* and every other task as they were; markDone with an identifier no task
\* has leaves the collection as it was.
C5_CompleteIdempotent ==
    [][DoneStep =>
          /\ Len(tasks') = Len(tasks)
          /\ \A i \in DOMAIN tasks :
                Present(tasks[i].completedAt) => tasks'[i] = tasks[i]
          /\ (\A i \in DOMAIN tasks : tasks'[i] = tasks[i]) \/
             (\E i \in DOMAIN tasks :
                 /\ ~Present(tasks[i].completedAt)
                 /\ tasks'[i] = [tasks[i] EXCEPT !.completedAt = ToISOString(now)]
                 /\ \A j \in DOMAIN tasks \ {i} : tasks'[j] = tasks[j])]_vars

\* C6: whenever the view is at rest the stored collection is the in-memory
\* collection, and every step that changes the in-memory collection (add,
\* complete, remove, a sweep) starts from such a state: each mutation is
\* persisted before the next one or the next sweep.
C6_WriteThrough ==
    /\ [](phase = "idle" => Mirror)
    /\ [][tasks' # tasks => Mirror]_vars
    /\ [][(phase = "dirty" /\ phase' # "dirty") => (phase' = "idle" /\ Mirror')]_vars

\* C6 witness: at rest after mutations: two tasks, one notified, one completed
C6_Witness ==
    /\ phase = "idle"
    /\ Len(tasks) = 2
    /\ \E i \in DOMAIN tasks : Present(tasks[i].notifiedAt)
    /\ \E i \in DOMAIN tasks : Present(tasks[i].completedAt)

\* C7: a task whose cadence is daily or weekdays never has notifiedAt set,
\* in memory or in storage; in particular not after a sweep advanced it.
C7_RepeatingNeverLeftNotified ==
    /\ \A i \in DOMAIN tasks :
          tasks[i].repeat \in {"daily", "weekdays"} => ~Present(tasks[i].notifiedAt)
    /\ \A i \in DOMAIN storage.items :
          storage.items[i].repeat \in {"daily", "weekdays"} =>
              ~Present(storage.items[i].notifiedAt)

\* C7 witness: a sweep has just advanced a repeating task past every due
\* time the form can set
C7_Witness ==
    /\ lastOp = "sweep"
    /\ \E i \in DOMAIN tasks :
          /\ tasks[i].repeat \in {"daily", "weekdays"}
          /\ DateParse(tasks[i].dateISO) > DateFromForm(MaxFormDay, MaxFormTime)

\* C8: a removed identifier is in no in-memory collection from the removal
\* on and in no stored collection once the removal is persisted, whatever
\* loads, sweeps and user operations follow; removeTask with an identifier
\* no task has leaves the collection as it was.
C8_DeletionDurable ==
    /\ [](/\ removed \cap IdsOf(tasks) = {}
          /\ removed \cap IdsOf(pending) = {}
          /\ ~(phase = "dirty" /\ lastOp = "remove") =>
                 removed \cap IdsOf(storage.items) = {})
    /\ [][RemoveStep =>
             /\ IdsOf(tasks') = IdsOf(tasks) \ removed'
             /\ removed' = removed => tasks' = tasks]_vars

\* C8 witness: the page was opened again after a removal and loaded the
\* task that was left
C8_Witness ==
    /\ removed # {}
    /\ lastOp = "load"
    /\ Len(tasks) = 1

\* C9: a sweep changes no field and no position of a task that is not yet
\* due or already has notifiedAt set, and shows no notification and plays
\* no beep for it; a sweep that a throw aborts writes nothing to storage.
C9_SweepFrame ==
    [][SweepStep =>
          /\ storage' = storage
          /\ \A i \in DOMAIN tasks :
                ~DueAndUnnotified(tasks[i]) =>
                    /\ <<tasks[i].id, "notif">> \notin lastEmits'
                    /\ <<tasks[i].id, "beep">> \notin lastEmits'
                    /\ lastOp' = "sweep" =>
                          (i \in DOMAIN tasks' /\ tasks'[i] = tasks[i])]_vars

\* C9 witness: a sweep has just stamped one task and passed over another
\* that was stamped earlier
C9_Witness ==
    /\ lastOp = "sweep"
    /\ phase = "dirty"
    /\ \E i, j \in DOMAIN tasks :
          /\ tasks[i].notifiedAt = ToISOString(now)
          /\ Present(tasks[j].notifiedAt)
          /\ DateParse(tasks[j].notifiedAt) < now

\* C10: every task that is due and not notified when a sweep runs is
\* stamped, or rescheduled if it repeats, by that sweep.
C10_DueProcessedInSweep ==
    [][SweepStep => \A i \in DOMAIN tasks :
                       DueAndUnnotified(tasks[i]) => Processed(i)]_vars

\* the step is one call of addTask that created a task
AddStep == phase = "idle" /\ lastOp' = "add"

\* the step is one interval callback that a throw aborted
AbortedSweepStep == phase = "idle" /\ lastOp' = "crash"

\* b is a with its completed timestamp possibly changed
SameButCompleted(a, b) ==
    /\ b.id = a.id
    /\ b.title = a.title
    /\ b.dateISO = a.dateISO
    /\ b.repeat = a.repeat
    /\ b.notifiedAt = a.notifiedAt

\* b is a with its due and notified timestamps possibly changed
SameButSchedule(a, b) ==
    /\ b.id = a.id
    /\ b.title = a.title
    /\ b.repeat = a.repeat
    /\ b.completedAt = a.completedAt

\* C11: every add, complete, remove and committed sweep starts from the
\* latest collection (the one the previous operation left, already
\* persisted) and its result is that collection with only its own change
\* applied: add puts one task in front of it, complete touches completed
\* timestamps only, remove takes tasks out and keeps the others as they
\* were and in order, a sweep keeps every task's position and completed
\* timestamp; a sweep that a throw aborts leaves the persisted collection,
\* which holds every user mutation, as it was.
C11_NoLostUpdate ==
    [][/\ tasks' # tasks => Mirror
       /\ AddStep =>
             /\ Len(tasks') = Len(tasks) + 1
             /\ \A i \in DOMAIN tasks : tasks'[i + 1] = tasks[i]
       /\ DoneStep =>
             /\ Len(tasks') = Len(tasks)
             /\ \A i \in DOMAIN tasks : SameButCompleted(tasks[i], tasks'[i])
       /\ RemoveStep =>
             /\ Len(tasks') <= Len(tasks)
             /\ \A i \in DOMAIN tasks' : \E j \in DOMAIN tasks :
                   j >= i /\ tasks'[i] = tasks[j]
             /\ \A i, j \in DOMAIN tasks' : i # j => tasks'[i].id # tasks'[j].id
       /\ CommittedSweepStep =>
             /\ Len(tasks') = Len(tasks)
             /\ \A i \in DOMAIN tasks : SameButSchedule(tasks[i], tasks'[i])
       /\ AbortedSweepStep => (Mirror /\ storage' = storage)]_vars

\* C11 witness: the user has just completed a task that an earlier sweep
\* stamped, next to another task, and the stamp is still there
C11_Witness ==
    /\ lastOp = "done"
    /\ phase = "dirty"
    /\ Len(tasks) = 2
    /\ \E i \in DOMAIN tasks :
          /\ Present(tasks[i].notifiedAt)
          /\ DateParse(tasks[i].notifiedAt) < now
          /\ tasks[i].completedAt = ToISOString(now)

\* C12: in every sweep two tasks with the same due timestamp, cadence and
\* notifiedAt are treated alike whether or not one of them is completed:
\* both are stamped or rescheduled or neither is (neither when a throw
\* aborts the sweep), with the same resulting due timestamp and notifiedAt.
\* A sweep that commits stamps, or reschedules if it repeats, every task
\* that is due and not notified also when the task is completed, and
\* leaves its completedAt as it was.
C12_ScannerIgnoresCompletion ==
    [][SweepStep =>
          /\ \A i, j \in DOMAIN tasks :
                (/\ tasks[i].dateISO = tasks[j].dateISO
                 /\ tasks[i].repeat = tasks[j].repeat
                 /\ tasks[i].notifiedAt = tasks[j].notifiedAt) =>
                    /\ Processed(i) <=> Processed(j)
                    /\ lastOp' = "sweep" =>
                          /\ tasks'[i].dateISO = tasks'[j].dateISO
                          /\ tasks'[i].notifiedAt = tasks'[j].notifiedAt
          /\ lastOp' = "sweep" =>
                \A i \in DOMAIN tasks :
                   (DueAndUnnotified(tasks[i]) /\ Present(tasks[i].completedAt)) =>
                       /\ Processed(i)
                       /\ tasks'[i].completedAt = tasks[i].completedAt]_vars

\* C12 witness: a sweep has just shown the notification of a completed
\* repeating task and moved it to its next occurrence, next to a task that
\* is not completed and was treated alike
C12_Witness ==
    /\ lastOp = "sweep"
    /\ phase = "dirty"
    /\ \E i, j \in DOMAIN tasks :
          /\ tasks[i].repeat # "none"
          /\ Present(tasks[i].completedAt)
          /\ DateParse(tasks[i].completedAt) <= now
          /\ DateParse(tasks[i].dateISO) > now
          /\ <<tasks[i].id, "notif">> \in lastEmits
          /\ ~Present(tasks[j].completedAt)
          /\ tasks[j].dateISO = tasks[i].dateISO
          /\ <<tasks[j].id, "notif">> \in lastEmits

\* the step is one call of addTask that returned at the title test
RejectedAddStep == phase = "idle" /\ lastOp' = "rejected"

\* the title is empty or consists of white space only
Blank(title) == title \in {"", " "}

\* titles held in a collection
TitlesOf(ts) == {ts[i].title : i \in DOMAIN ts}

\* C13: a call of addTask with a blank or whitespace-only title changes
\* neither the in-memory collection nor the stored one and creates no task:
\* the rejected call leaves tasks, storage and the identifiers handed out as
\* they were, no call with such a title creates a task, and so no task with
\* a blank title is ever in memory, in a load or in storage.
C13_BlankTitleNoOp ==
    /\ [][RejectedAddStep =>
             /\ tasks' = tasks
             /\ storage' = storage
             /\ pending' = pending
             /\ nextId' = nextId
             /\ phase' = "idle"]_vars
    /\ [][AddStep => ~Blank(tasks'[1].title)]_vars
    /\ [](\A title \in TitlesOf(tasks) \cup TitlesOf(pending)
                       \cup TitlesOf(storage.items) : ~Blank(title))

\* C13 witness: addTask has just been called with a blank title on a
\* collection of one task, which is still there and still stored
C13_Witness ==
    /\ lastOp = "rejected"
    /\ phase = "idle"
    /\ Len(tasks) = 1
    /\ Mirror

\* the identifiers of a collection are pairwise distinct
DistinctIds(ts) == \A i, j \in DOMAIN ts : i # j => ts[i].id # ts[j].id

\* C14: a call of addTask with a non-blank title (and a due date and time)
\* yields the new task followed by the previous collection in its previous
\* order; the new task's identifier is that of no task of the previous
\* collection and it has neither notifiedAt nor completedAt.  Identifiers
\* are pairwise distinct in every reachable collection: in memory, in a
\* load and in storage.
C14_AddPrependsFresh ==
    /\ [][AddStep =>
             /\ Len(tasks') = Len(tasks) + 1
             /\ SubSeq(tasks', 2, Len(tasks')) = tasks
             /\ tasks'[1].id \notin IdsOf(tasks)
             /\ ~Blank(tasks'[1].title)
             /\ ~Present(tasks'[1].notifiedAt)
             /\ ~Present(tasks'[1].completedAt)]_vars
    /\ [](/\ DistinctIds(tasks)
          /\ DistinctIds(pending)
          /\ DistinctIds(storage.items))

\* C14 witness: a task has just been added in front of a task that a sweep
\* had stamped
C14_Witness ==
    /\ lastOp = "add"
    /\ phase = "dirty"
    /\ Len(tasks) = 2
    /\ ~Present(tasks[1].notifiedAt)
    /\ Present(tasks[2].notifiedAt)

\* the stored value is an array whose elements all are objects
ArrayOfRecords(st) ==
    /\ st.kind = "array"
    /\ \A i \in DOMAIN st.items : "json" \notin DOMAIN st.items[i]

\* the step runs the mount effects, loadTasks among them
MountStep == phase = "rendered" /\ phase' = "loading"

\* C15: when the stored value is absent, is not parsable, or parses to
\* something that is no array of records, loadTasks returns the empty
\* collection, and startup commits and persists the empty collection.
C15_LoadDegradesToEmpty ==
    /\ [][(MountStep /\ ~ArrayOfRecords(storage)) => pending' = <<>>]_vars
    /\ [][(phase = "loading" /\ lastOp' = "load") => tasks' = pending]_vars

\* the step is one interval callback, wherever the view is
TimerStep == lastOp' \in {"sweep", "crash"} /\ lastOp' # lastOp

\* C16: an unmounted view has no interval; from an unmounted view no sweep
\* runs, and no step changes the task collection or storage until the page
\* is opened again; while the view is mounted and at rest a sweep eventually
\* runs (or the view is unmounted first), also after soundReady changed and
\* the interval was created anew.
C16_ScannerStopsAtTeardown ==
    /\ [](phase \in {"unmounted", "rendered"} => interval = "none")
    /\ [][phase = "unmounted" =>
             /\ ~TimerStep
             /\ tasks' = tasks
             /\ storage' = storage]_vars
    /\ [][TimerStep => (phase = "idle" /\ interval = "active")]_vars
    /\ [](phase = "idle" =>
             <>(lastOp \in {"sweep", "crash"} \/ phase = "unmounted"))

\* C16 witness: the view was unmounted with a due task left un-notified in
\* storage, and time has passed since
C16_Witness ==
    /\ phase = "unmounted"
    /\ lastOp = "unmount"
    /\ now = MaxNow
    /\ \E i \in DOMAIN storage.items :
          /\ now > DateParse(storage.items[i].dateISO)
          /\ ~Present(storage.items[i].notifiedAt)

\* persisting ts and loading the result gives ts back: the same tasks in
\* the same order
RoundTrips(ts) ==
    LET back == LoadTasks(SaveTasks(ts))
    IN  /\ Len(back) = Len(ts)
        /\ \A i \in DOMAIN ts : SameTask(back[i], ts[i])

\* C17: for every collection the view reaches, saveTasks followed by
\* loadTasks gives the same tasks in the same order, each with the same id,
\* title, due timestamp and cadence and with notifiedAt and completedAt
\* present or absent alike and equal when present; and what a mount loads
\* is, task by task, what the storage held.
C17_RoundTrip ==
    /\ [](RoundTrips(tasks))
    /\ [][MountStep =>
             /\ Len(pending') = Len(storage.items)
             /\ \A i \in DOMAIN pending' :
                   SameTask(pending'[i], storage.items[i])]_vars

\* C17 witness: the page was opened again and loaded two tasks, one that a
\* sweep had moved to its next occurrence, one that was completed
C17_Witness ==
    /\ lastOp = "load"
    /\ Len(tasks) = 2
    /\ \E i, j \in DOMAIN tasks :
          /\ DateParse(tasks[i].dateISO) > DateFromForm(MaxFormDay, MaxFormTime)
          /\ ~Present(tasks[i].notifiedAt)
          /\ Present(tasks[j].completedAt)
          /\ tasks[1].id # tasks[2].id

\* tasks of the two collections with the same id have the same title and
\* cadence
SameIdentity(as, bs) ==
    \A i \in DOMAIN as, j \in DOMAIN bs :
       as[i].id = bs[j].id =>
          (as[i].title = bs[j].title /\ as[i].repeat = bs[j].repeat)

\* C18: no step changes the title or the cadence that goes with an
\* identifier, in memory, in a load or in storage; markDone changes nothing
\* of any task but completedAt, and a committed sweep nothing but dateISO
\* and notifiedAt; addTask keeps every existing task as it is, and what
\* removeTask leaves are tasks as they were.
C18_IdentityImmutable ==
    /\ [][SameIdentity(tasks, tasks')]_vars
    /\ [](/\ SameIdentity(tasks, storage.items)
          /\ SameIdentity(pending, storage.items)
          /\ SameIdentity(tasks, pending))
    /\ [][DoneStep =>
             \A i \in DOMAIN tasks :
                /\ i \in DOMAIN tasks'
                /\ SameButCompleted(tasks[i], tasks'[i])]_vars
    /\ [][CommittedSweepStep =>
             \A i \in DOMAIN tasks :
                /\ i \in DOMAIN tasks'
                /\ SameButSchedule(tasks[i], tasks'[i])]_vars
    /\ [][AddStep => \A i \in DOMAIN tasks : \E j \in DOMAIN tasks' :
                         tasks'[j] = tasks[i]]_vars
    /\ [][RemoveStep => \A j \in DOMAIN tasks' : \E i \in DOMAIN tasks :
                            tasks'[j] = tasks[i]]_vars

\* C18 witness: a repeating task that a sweep moved and the user completed
\* is what is left after the other task was removed
C18_Witness ==
    /\ lastOp = "remove"
    /\ removed # {}
    /\ Len(tasks) = 1
    /\ tasks[1].repeat # "none"
    /\ Present(tasks[1].completedAt)
    /\ DateParse(tasks[1].dateISO) > DateFromForm(MaxFormDay, MaxFormTime)

\* C19: from mount onwards every step keeps in storage each stored task the
\* user has not removed; in particular, while the loaded collection waits
\* to be committed, the tasks that were loaded are still in storage.
C19_StartupKeepsStoredTasks ==
    /\ [][(IdsOf(storage.items) \ removed') \subseteq IdsOf(storage'.items)]_vars
    /\ [](phase = "loading" => IdsOf(pending) \subseteq IdsOf(storage.items))

\* C20: a committed sweep moves a due repeating task by one occurrence
\* counted from its previous due timestamp, wherever the clock stands: to
\* the next local calendar day for daily, to the next day that is no
\* Saturday or Sunday for weekdays.  The due timestamp strictly increases
\* and notifiedAt is absent, so that a task whose new due timestamp is still
\* not later than the clock is eligible again for the next sweep.  A sweep
\* that a throw aborts moves nothing.
C20_OneOccurrencePerSweep ==
    [][SweepStep =>
          /\ lastOp' = "crash" => storage' = storage
          /\ lastOp' = "sweep" =>
                \A i \in DOMAIN tasks :
                   (DueAndUnnotified(tasks[i]) /\ tasks[i].repeat # "none") =>
                      LET D == DateParse(tasks[i].dateISO)
                          N == DateParse(tasks'[i].dateISO)
                      IN  /\ N > D
                          /\ tasks[i].repeat = "daily" =>
                                GetDate(N) = GetDate(D) + 1
                          /\ tasks[i].repeat = "weekdays" =>
                                GetDate(N) = EarliestWeekdayAfter(GetDate(D))
                          /\ ~Present(tasks'[i].notifiedAt)
                          /\ N <= now =>
                                (now' >= DateParse(tasks'[i].dateISO)
                                 /\ ~Present(tasks'[i].notifiedAt))]_vars

\* C20 witness: the second of two consecutive sweeps has just notified a
\* daily task that was two occurrences overdue and moved it past the clock
C20_Witness ==
    /\ lastOp = "sweep"
    /\ phase = "dirty"
    /\ now = MaxNow
    /\ \E i \in DOMAIN tasks :
          /\ tasks[i].repeat = "daily"
          /\ GetDate(DateParse(tasks[i].dateISO)) = MaxFormDay + 2
          /\ DateParse(tasks[i].dateISO) > now
          /\ <<tasks[i].id, "notif">> \in lastEmits

====
